---- MODULE Spec2Model ----
(***************************************************************************)
(* The call lifecycle of src/app/page.tsx (component Home): the refs and   *)
(* React state of one page instance ("controller"), the asynchronous tasks *)
(* suspended in getUserMedia, and the objects the page drives through the  *)
(* peerjs transport and the browser media API (call handles, microphone    *)
(* streams, audio contexts, analysers, animation frames).                  *)
(*                                                                         *)
(* One record per page instance holds all of that; every handler of the    *)
(* component is an operator from that record to the record after the       *)
(* handler has run to its end or to its next await.                        *)
(*                                                                         *)
(* The transport (peerjs) is not part of the repository.  What the model   *)
(* takes from it: MediaConnection.close() on an open connection emits      *)
(* "close" to the registered listeners before it returns and emits nothing *)
(* on a connection that is not open; a connection is open once answer()    *)
(* was called on it (callee) or the remote answer arrived (caller); after  *)
(* close() the connection emits nothing more.  Peer.call is taken to       *)
(* return a connection whenever the Peer object exists.                    *)
(* The <audio> elements (remoteAudioRef, localAudioRef) and the clipboard  *)
(* action carry no call state and are left out.                            *)
(***************************************************************************)
EXTENDS Integers, Sequences, FiniteSets, TLC

VARIABLES ctl

vars == <<ctl>>

\* ------------------------------------------------------------------ bounds
MaxCalls == 2        \* call handles the transport hands to one page
MaxStreams == 2      \* getUserMedia requests one page makes
MaxFrames == 2       \* animation-frame ids in use at once
MaxDisconnects == 1  \* disconnected events the transport reports

\* ------------------------------------------------------------- constants
NoCall == 0
NoStream == 0
NoContext == 0
NoAnalyser == 0
NoFrame == 0

Agents == {"A", "B"}
Other(a) == IF a = "A" THEN "B" ELSE "A"

CallIds == 1..MaxCalls
StreamIds == 1..MaxStreams
FrameIds == 1..MaxFrames
\* Rounded volume samples a tick may read (silence, sound).
Levels == {0, 1}

\* The text of the "Dial a peer" input: a sequence of characters, " " being
\* white space.
RemoteIdInputs == {<<>>, <<" ">>, <<" ", " ">>, <<" ", "A", " ">>}

\* createAgentId: a fixed prefix and two random groups; every page draws its
\* own.  Here the identity of page a is the one-character text <<a>>.
createAgentId(a) == <<a>>

\* Identities of callers outside the model (the arbitrary-transport spec).
Callers == {<<"R">>}

\* String.prototype.trim
RECURSIVE TrimLeft(_)
TrimLeft(s) ==
  IF s = <<>> THEN s
  ELSE IF Head(s) = " " THEN TrimLeft(Tail(s)) ELSE s

RECURSIVE TrimRight(_)
TrimRight(s) ==
  IF s = <<>> THEN s
  ELSE IF s[Len(s)] = " " THEN TrimRight(SubSeq(s, 1, Len(s) - 1)) ELSE s

Trim(s) == TrimRight(TrimLeft(s))

\* ------------------------------------------------------------- messages
Msg(text, arg) == <<text, arg>>
MsgLoading == Msg("Loading agent...", <<>>)
MsgShare == Msg("Share your agent ID or dial a peer to connect.", <<>>)
MsgCallEnded == Msg("Call ended.", <<>>)
MsgEnterPeer == Msg("Enter a peer ID before calling.", <<>>)
MsgNotReady == Msg("Agent not ready yet.", <<>>)
MsgReconnecting == Msg("Connection lost. Attempting to reconnect...", <<>>)
MsgIncoming(peer) == Msg("Call incoming from", peer)
MsgConnected(peer) == Msg("Connected with", peer)
MsgCalling(remoteId) == Msg("Calling", remoteId)
\* error.message of the errors the handlers catch
ErrMicDenied == Msg("Permission denied", <<>>)
ErrNoAudioContext == Msg("AudioContext is not supported in this browser.", <<>>)
ErrPeerNull == Msg("Cannot read properties of null (reading 'call')", <<>>)
ErrCall == Msg("call error", <<>>)
ErrPeer == Msg("peer error", <<>>)

\* ---------------------------------------------------------------- state
\* A call handle (peerjs MediaConnection) as the page and the transport see it.
EmptyCall ==
  [ dir        |-> "none",     \* "none" (not created) | "out" | "in"
    peer       |-> <<>>,       \* call.peer
    phase      |-> "none",     \* "none" | "pending" | "open" | "closed"
    answered   |-> FALSE,      \* answer(stream) was invoked
    subscribed |-> FALSE,      \* call.on("stream" | "close" | "error") done
    closeCalls |-> 0,          \* invocations of close() by the page
    superseded |-> FALSE ]     \* was callRef.current when another was registered

EmptyStream == [ state |-> "none", stops |-> 0 ]        \* MediaStream
EmptyContext == [ created |-> FALSE, closes |-> 0 ]     \* AudioContext
EmptyAnalyser == [ created |-> FALSE, disconnects |-> 0 ] \* AnalyserNode

InitCtl(a, audio) ==
  [ \* React state
    status          |-> "initializing",
    statusMessage   |-> MsgLoading,
    micLevel        |-> 0,
    localId         |-> <<>>,
    \* refs
    peerRef         |-> FALSE,
    callRef         |-> NoCall,
    localStreamRef  |-> NoStream,
    analyserRef     |-> NoAnalyser,
    audioContextRef |-> NoContext,
    animationFrameRef |-> NoFrame,
    \* the effect's closure
    isMounted       |-> TRUE,       \* FALSE once the cleanup has run
    initPc          |-> "import",   \* "import" (awaiting import("peerjs")) | "done"
    \* the Peer object
    peer            |-> [ exists |-> FALSE, open |-> FALSE, destroyed |-> FALSE,
                          disconnects |-> 0, reconnects |-> 0 ],
    \* the browser
    audioSupported  |-> audio,      \* window.AudioContext || webkitAudioContext
    micRequests     |-> 0,          \* getUserMedia invocations
    calls           |-> [h \in CallIds |-> EmptyCall],
    streams         |-> [s \in StreamIds |-> EmptyStream],
    contexts        |-> [s \in StreamIds |-> EmptyContext],
    analysers       |-> [s \in StreamIds |-> EmptyAnalyser],
    frames          |-> {},         \* scheduled animation-frame callbacks
    \* async invocations suspended at await getUserMedia
    tasks           |-> <<>> ]

\* ------------------------------------------------------------- handlers
updateStatus(c, nextStatus, message) ==
  [c EXCEPT !.status = nextStatus, !.statusMessage = message]

RECURSIVE destroyCall(_)
RECURSIVE closeCall(_, _)
RECURSIVE onCallClose(_, _)

\* The close listener tearing down without its status update
onCallCloseKeepStatus(c, h) == destroyCall(c)

\* call.on("close", ...)
onCallClose(c, h) ==
  destroyCall(updateStatus(c,
                           "ready", MsgCallEnded))

\* MediaConnection.close() as invoked by the page on handle h (h = NoCall: the
\* optional chain callRef.current?.close() on null).
closeCall(c, h) ==
  IF h = NoCall THEN c
  ELSE LET wasOpen == c.calls[h].phase = "open"
           c1 == [c EXCEPT !.calls[h].closeCalls = @ + 1,
                           !.calls[h].phase = "closed"]
       IN IF wasOpen /\ c.calls[h].subscribed THEN onCallClose(c1, h) ELSE c1

\* destroyCall stopping the tracks without releasing the reference
StopStreamKeepRef(c) ==
  IF c.localStreamRef # NoStream
  THEN [c EXCEPT !.streams[c.localStreamRef].state = "stopped",
                 !.streams[c.localStreamRef].stops = @ + 1]
  ELSE c

StopStream(c) ==
  IF c.localStreamRef # NoStream
  THEN [c EXCEPT !.streams[c.localStreamRef].state = "stopped",
                 !.streams[c.localStreamRef].stops = @ + 1,
                 !.localStreamRef = NoStream]
  ELSE c

CloseContext(c) ==
  IF c.audioContextRef # NoContext
  THEN [c EXCEPT !.contexts[c.audioContextRef].closes = @ + 1,
                 !.audioContextRef = NoContext]
  ELSE c

DisconnectAnalyser(c) ==
  IF c.analyserRef # NoAnalyser
  THEN [c EXCEPT !.analysers[c.analyserRef].disconnects = @ + 1,
                 !.analyserRef = NoAnalyser]
  ELSE c

CancelFrame(c) ==
  IF c.animationFrameRef # NoFrame
  THEN [c EXCEPT !.frames = @ \ {c.animationFrameRef},
                 !.animationFrameRef = NoFrame]
  ELSE c

destroyCall(c) ==
  LET c1 == closeCall(c, c.callRef)
      c2 == [c1 EXCEPT !.callRef = NoCall]
      c3 == CancelFrame(DisconnectAnalyser(CloseContext(StopStream(c2))))
  IN [c3 EXCEPT !.micLevel = 0]

\* Smallest unused id of each kind of object.
HasFreeCall(c) == \E h \in CallIds : c.calls[h].dir = "none"
FreeCall(c) == CHOOSE h \in CallIds :
  /\ c.calls[h].dir = "none"
  /\ \A g \in CallIds : c.calls[g].dir = "none" => h <= g
FreeStream(c) == CHOOSE s \in StreamIds :
  /\ c.streams[s].state = "none"
  /\ \A r \in StreamIds : c.streams[r].state = "none" => s <= r
HasFreeFrame(c) == Cardinality(c.frames) < MaxFrames
FreeFrame(c) == CHOOSE f \in FrameIds :
  /\ f \notin c.frames
  /\ \A g \in FrameIds : g \notin c.frames => f <= g

\* ensureLocalStream after getUserMedia resolved with the new stream s
\* (lines 109-136); the result says whether it returned or threw.
GrantStream(c, s) ==
  LET c1 == [c EXCEPT !.localStreamRef = s, !.streams[s].state = "live"]
  IN IF c1.audioContextRef = NoContext /\ ~c1.audioSupported
     THEN [ ok |-> FALSE, err |-> ErrNoAudioContext,
            c |-> updateStatus(c1, "error", ErrNoAudioContext) ]
     ELSE LET c2 == IF c1.audioContextRef = NoContext
                    THEN [c1 EXCEPT !.audioContextRef = s,
                                    !.contexts[s].created = TRUE]
                    ELSE c1
          IN [ ok |-> TRUE, err |-> <<>>,
               c |-> [c2 EXCEPT !.analyserRef = s,
                                !.analysers[s].created = TRUE] ]

\* ensureLocalStream after getUserMedia rejected (lines 137-145)
DenyStream(c) ==
  [ ok |-> FALSE, err |-> ErrMicDenied,
    c |-> updateStatus(c, "error", ErrMicDenied) ]

\* observeMicLevel starting its loop without cancelling the pending frame
observeMicLevelNoCancel(c, level) ==
  IF c.analyserRef = NoAnalyser THEN c
  ELSE LET f == FreeFrame(c)
       IN [c EXCEPT !.micLevel = level,
                    !.frames = @ \cup {f},
                    !.animationFrameRef = f]

\* observeMicLevel; level is the rounded volume the first tick() reads
observeMicLevel(c, level) ==
  IF c.analyserRef = NoAnalyser THEN c
  ELSE LET c1 == CancelFrame(c)
           f == FreeFrame(c1)
       IN [c1 EXCEPT !.micLevel = level,
                     !.frames = @ \cup {f},
                     !.animationFrameRef = f]

\* tick() run by the scheduled frame f
tick(c, f, level) ==
  LET c1 == [c EXCEPT !.frames = @ \ {f}]
      g == FreeFrame(c1)
  IN [c1 EXCEPT !.micLevel = level,
                !.frames = @ \cup {g},
                !.animationFrameRef = g]

\* registerCallHandlers without the close of the handle it replaces
registerCallHandlersNoClose(c, h) ==
  LET old == c.callRef
      c0 == IF old # NoCall THEN [c EXCEPT !.calls[old].superseded = TRUE] ELSE c
  IN [c0 EXCEPT !.callRef = h, !.calls[h].subscribed = TRUE]

registerCallHandlers(c, h) ==
  LET old == c.callRef
      c0 == IF old # NoCall THEN [c EXCEPT !.calls[old].superseded = TRUE] ELSE c
      c1 == closeCall(c0, old)
  IN [c1 EXCEPT !.callRef = h, !.calls[h].subscribed = TRUE]

\* call.on("stream", ...)
onCallStream(c, h) ==
  updateStatus(c,
               "in-call", MsgConnected(c.calls[h].peer))

\* call.on("error", ...)
onCallError(c, h) ==
  destroyCall(updateStatus(c,
                           "error", ErrCall))

\* placeCall's continuation without its status update
placeCallResumeNoStatus(c, remoteId, stream, level) ==
  LET c2 == observeMicLevel(c, level)
  IN IF ~c2.peerRef
     THEN updateStatus(c2, "error", ErrPeerNull)
     ELSE LET h == FreeCall(c2)
              c3 == [c2 EXCEPT !.calls[h] =
                       [EmptyCall EXCEPT !.dir = "out", !.peer = Trim(remoteId),
                                         !.phase = "pending"]]
          IN registerCallHandlers(c3, h)

\* placeCall from the return of ensureLocalStream on (lines 259-262, and the
\* catch for peerRef.current being null at line 261)
placeCallResume(c, remoteId, stream, level) ==
  LET c1 == observeMicLevel(c, level)
      c2 == updateStatus(c1, "calling", MsgCalling(remoteId))
  IN IF ~c2.peerRef
     THEN updateStatus(c2, "error", ErrPeerNull)
     ELSE LET h == FreeCall(c2)
              c3 == [c2 EXCEPT !.calls[h] =
                       [EmptyCall EXCEPT !.dir = "out", !.peer = Trim(remoteId),
                                         !.phase = "pending"]]
          IN registerCallHandlers(c3, h)

\* placeCall testing the input's text without trimming it
placeCallNoTrim(c, remoteId, level) ==
  IF remoteId = <<>> THEN updateStatus(c, "error", MsgEnterPeer)
  ELSE IF ~c.peerRef THEN updateStatus(c, "error", MsgNotReady)
  ELSE IF c.localStreamRef # NoStream
       THEN placeCallResume(c, remoteId, c.localStreamRef, level)
       ELSE [c EXCEPT !.micRequests = @ + 1,
                      !.tasks = Append(@, [kind |-> "place", remoteId |-> remoteId,
                                           call |-> NoCall])]

\* placeCall up to its await (lines 248-258)
placeCall(c, remoteId, level) ==
  IF Trim(remoteId) = <<>> THEN updateStatus(c, "error", MsgEnterPeer)
  ELSE IF ~c.peerRef THEN updateStatus(c, "error", MsgNotReady)
  ELSE IF c.localStreamRef # NoStream
       THEN placeCallResume(c, remoteId, c.localStreamRef, level)
       ELSE [c EXCEPT !.micRequests = @ + 1,
                      !.tasks = Append(@, [kind |-> "place", remoteId |-> remoteId,
                                           call |-> NoCall])]

\* peer.on("call") from the return of ensureLocalStream on (lines 214-216)
answerResume(c, h, stream, level) ==
  LET c1 == observeMicLevel(c, level)
      c2 == [c1 EXCEPT !.calls[h].answered = TRUE, !.calls[h].phase = "open"]
  IN registerCallHandlers(c2, h)

\* peer.on("call") up to its await (lines 210-213); h is the inbound handle
onPeerCall(c, h, level) ==
  LET c1 == updateStatus(c, "incoming", MsgIncoming(c.calls[h].peer))
  IN IF c1.localStreamRef # NoStream
     THEN answerResume(c1, h, c1.localStreamRef, level)
     ELSE [c1 EXCEPT !.micRequests = @ + 1,
                     !.tasks = Append(@, [kind |-> "answer", remoteId |-> <<>>,
                                          call |-> h])]

RemoveAt(seq, i) == SubSeq(seq, 1, i - 1) \o SubSeq(seq, i + 1, Len(seq))

\* The resumption going on to answer or dial although ensureLocalStream threw
taskResumeIgnoreFailure(c, i, granted, level) ==
  LET t == c.tasks[i]
      c0 == [c EXCEPT !.tasks = RemoveAt(@, i)]
      s == IF granted THEN FreeStream(c0) ELSE NoStream
      r == IF granted THEN GrantStream(c0, s) ELSE DenyStream(c0)
  IN IF t.kind = "place" THEN placeCallResume(r.c, t.remoteId, s, level)
     ELSE answerResume(r.c, t.call, s, level)

\* The suspended invocation i resumes: getUserMedia resolved (granted) or
\* rejected; ensureLocalStream runs on, then its caller, or their catch blocks.
taskResume(c, i, granted, level) ==
  LET t == c.tasks[i]
      c0 == [c EXCEPT !.tasks = RemoveAt(@, i)]
      s == IF granted THEN FreeStream(c0) ELSE NoStream
      r == IF granted THEN GrantStream(c0, s) ELSE DenyStream(c0)
  IN IF ~r.ok THEN updateStatus(r.c, "error", r.err)
     ELSE IF t.kind = "place" THEN placeCallResume(r.c, t.remoteId, s, level)
     ELSE answerResume(r.c, t.call, s, level)

\* endCall closing the call without the teardown of the local resources
endCallNoTeardown(c) ==
  LET c1 == closeCall(c, c.callRef)
      c2 == [c1 EXCEPT !.callRef = NoCall]
  IN updateStatus(c2, "ready", MsgCallEnded)

endCall(c) ==
  LET c1 == closeCall(c, c.callRef)
      c2 == [c1 EXCEPT !.callRef = NoCall]
  IN updateStatus(destroyCall(c2), "ready", MsgCallEnded)

\* the effect's async body after import("peerjs") (lines 199-237)
initialize(c) ==
  [c EXCEPT !.initPc = "done", !.peerRef = TRUE, !.peer.exists = TRUE]

\* The open listener recording the identity without its status update
onPeerOpenKeepStatus(c, id) ==
  IF ~c.isMounted THEN c
  ELSE [c EXCEPT !.localId = id]

\* peer.on("open", ...)
onPeerOpen(c, id) ==
  IF ~c.isMounted THEN c
  ELSE updateStatus([c EXCEPT !.localId = id], "ready", MsgShare)

\* The disconnected listener reporting the loss without reconnecting
onPeerDisconnectedNoReconnect(c) ==
  updateStatus(c, "error", MsgReconnecting)

\* peer.on("disconnected", ...)
onPeerDisconnected(c) ==
  [updateStatus(c, "error", MsgReconnecting) EXCEPT !.peer.reconnects = @ + 1]

\* peer.on("error", ...)
onPeerError(c) == updateStatus(c, "error", ErrPeer)

\* the effect's cleanup (lines 240-245)
cleanup(c) ==
  LET c1 == destroyCall([c EXCEPT !.isMounted = FALSE])
  IN [c1 EXCEPT !.peer.destroyed = (c1.peerRef \/ @), !.peerRef = FALSE]

\* the buttons' disabled attributes (lines 294-295, 363, 393)
isCallActive(c) == c.status \in {"calling", "in-call"}
isReady(c) == c.status \in {"ready", "incoming"}

\* --------------------------------------------------------------- actions
Step(a, c) == ctl' = [ctl EXCEPT ![a] = c]

\* import("peerjs") resolves and the effect's body runs on
InitResume(a) ==
  /\ ctl[a].initPc = "import"
  /\ Step(a, initialize(ctl[a]))

\* The transport's events reach the listeners of a Peer that has them and was
\* not destroyed.
PeerLive(c) == c.peer.exists /\ ~c.peer.destroyed

PeerOpen(a) ==
  /\ PeerLive(ctl[a])
  /\ ~ctl[a].peer.open
  /\ Step(a, onPeerOpen([ctl[a] EXCEPT !.peer.open = TRUE], createAgentId(a)))

PeerDisconnected(a) ==
  /\ PeerLive(ctl[a])
  /\ ctl[a].peer.open
  /\ ctl[a].peer.disconnects < MaxDisconnects
  /\ Step(a, onPeerDisconnected([ctl[a] EXCEPT !.peer.open = FALSE,
                                               !.peer.disconnects = @ + 1]))

PeerError(a) ==
  /\ PeerLive(ctl[a])
  /\ Step(a, onPeerError(ctl[a]))

\* The transport emits "call" with a new inbound handle from caller `from`.
InboundCall(a, from, level) ==
  LET c == ctl[a]
      h == FreeCall(c)
      c1 == [c EXCEPT !.calls[h] = [EmptyCall EXCEPT !.dir = "in", !.peer = from,
                                                     !.phase = "pending"]]
  IN /\ PeerLive(c)
     /\ c.peer.open
     /\ HasFreeCall(c)
     /\ c.localStreamRef = NoStream => c.micRequests < MaxStreams
     /\ HasFreeFrame(c)
     /\ Step(a, onPeerCall(c1, h, level))

PeerCall(a) ==
  \E from \in Callers, level \in Levels : InboundCall(a, from, level)

\* The Call button's handler, with the input's text
Dial(a, remoteId, level) ==
  LET c == ctl[a]
      dials == Trim(remoteId) # <<>> /\ c.peerRef
  IN /\ c.isMounted
     /\ (dials /\ c.localStreamRef # NoStream) => HasFreeCall(c)
     /\ (dials /\ c.localStreamRef = NoStream) => c.micRequests < MaxStreams
     /\ HasFreeFrame(c)
     /\ Step(a, placeCall(c, remoteId, level))

PlaceCall(a) ==
  \E remoteId \in RemoteIdInputs, level \in Levels : Dial(a, remoteId, level)

\* getUserMedia settles for one of the suspended invocations
TaskSettle(a, i, granted, level) ==
  LET c == ctl[a]
  IN /\ i \in 1..Len(c.tasks)
     /\ (granted /\ c.tasks[i].kind = "place" /\ c.peerRef) => HasFreeCall(c)
     /\ HasFreeFrame(c)
     /\ Step(a, taskResume(c, i, granted, level))

TaskResume(a) ==
  \E i \in 1..MaxStreams, granted \in BOOLEAN, level \in Levels :
    TaskSettle(a, i, granted, level)

\* The Hang Up button's handler
EndCall(a) ==
  /\ ctl[a].isMounted
  /\ Step(a, endCall(ctl[a]))

\* A scheduled frame callback runs
FrameTick(a) ==
  \E f \in ctl[a].frames, level \in Levels : Step(a, tick(ctl[a], f, level))

\* The remote answer to an outbound call arrives: the connection is open.
CallAnswered(a, h) ==
  /\ ctl[a].calls[h].dir = "out"
  /\ ctl[a].calls[h].phase = "pending"
  /\ Step(a, [ctl[a] EXCEPT !.calls[h].phase = "open"])

\* The call handle h emits "stream", "close" (the connection ended on the
\* remote side or in the network), "error".
CallStream(a, h) ==
  /\ ctl[a].calls[h].subscribed
  /\ ctl[a].calls[h].phase = "open"
  /\ Step(a, onCallStream(ctl[a], h))

CallClose(a, h) ==
  /\ ctl[a].calls[h].subscribed
  /\ ctl[a].calls[h].phase = "open"
  /\ Step(a, onCallClose([ctl[a] EXCEPT !.calls[h].phase = "closed"], h))

CallError(a, h) ==
  /\ ctl[a].calls[h].subscribed
  /\ ctl[a].calls[h].phase \in {"pending", "open"}
  /\ Step(a, onCallError(ctl[a], h))

\* The page is dismounted: the effect's cleanup runs
Shutdown(a) ==
  /\ ctl[a].isMounted
  /\ Step(a, cleanup(ctl[a]))

\* ------------------------------------------------------- specification
\* One page against an arbitrary transport and browser.  (The second page
\* stays as constructed.)
Solo == "A"

Init ==
  \E audio \in BOOLEAN :
    ctl = [a \in Agents |-> InitCtl(a, IF a = Solo THEN audio ELSE TRUE)]

Next ==
  \/ InitResume(Solo)
  \/ PeerOpen(Solo)
  \/ PeerDisconnected(Solo)
  \/ PeerError(Solo)
  \/ PeerCall(Solo)
  \/ PlaceCall(Solo)
  \/ TaskResume(Solo)
  \/ EndCall(Solo)
  \/ FrameTick(Solo)
  \/ \E h \in CallIds : CallAnswered(Solo, h)
  \/ \E h \in CallIds : CallStream(Solo, h)
  \/ \E h \in CallIds : CallClose(Solo, h)
  \/ \E h \in CallIds : CallError(Solo, h)
  \/ Shutdown(Solo)

Spec == Init /\ [][Next]_vars

\* The call handles the transport has created for a page
Created(c) == {h \in CallIds : c.calls[h].dir # "none"}

\* Two pages, A and B, joined by the transport: what one page does to a call
\* reaches the other page's handle of the same call.  The scenario: both
\* initialize, microphones are granted, B dials A's identity, and when both
\* are in the call either hangs up; then B may dial again.  Only B creates
\* handles (outbound)
\* and A receives them in order, so the k-th handle of B and the k-th handle of
\* A are the two ends of one call.
\* What B types to dial A: A's identity, bare or padded with white space.
DialTexts == {<<"A">>, <<" ", "A", " ">>}

PairInit == ctl = [a \in Agents |-> InitCtl(a, TRUE)]

BothInCall == \A a \in Agents : ctl[a].status = "in-call"

PairDial ==
  /\ \A a \in Agents : ctl[a].status = "ready" /\ ctl[a].callRef = NoCall
  /\ Created(ctl["A"]) = Created(ctl["B"])
  /\ ctl["B"].tasks = <<>>
  /\ \E remoteId \in DialTexts, level \in Levels : Dial("B", remoteId, level)

\* The offer reaches the page whose identity was dialled.
PairOffer ==
  \E k \in CallIds, level \in Levels :
    /\ ctl["B"].calls[k].dir = "out"
    /\ ctl["B"].calls[k].peer = ctl["A"].localId
    /\ ctl["A"].calls[k].dir = "none"
    /\ InboundCall("A", ctl["B"].localId, level)

PairGrant(a) ==
  \E i \in 1..MaxStreams, level \in Levels : TaskSettle(a, i, TRUE, level)

\* A's answer reaches B.
PairAnswer ==
  \E k \in CallIds : ctl["A"].calls[k].answered /\ CallAnswered("B", k)

PairStream(a) == \E k \in CallIds : CallStream(a, k)

\* The other end of the call was closed.
PairClose(a) ==
  \E k \in CallIds :
    ctl[Other(a)].calls[k].phase = "closed" /\ CallClose(a, k)

\* The Hang Up button, enabled by isCallActive, once both are in the call
PairEndCall(a) ==
  /\ BothInCall
  /\ isCallActive(ctl[a])
  /\ EndCall(a)

PairNext ==
  \/ \E a \in Agents : InitResume(a)
  \/ \E a \in Agents : PeerOpen(a)
  \/ PairDial
  \/ PairOffer
  \/ \E a \in Agents : PairGrant(a)
  \/ PairAnswer
  \/ \E a \in Agents : PairStream(a)
  \/ \E a \in Agents : PairClose(a)
  \/ \E a \in Agents : PairEndCall(a)
  \/ \E a \in Agents : FrameTick(a)

\* The event loop runs every settled promise and every emitted event.
PairFairness ==
  /\ \A a \in Agents : WF_vars(InitResume(a))
  /\ \A a \in Agents : WF_vars(PeerOpen(a))
  /\ WF_vars(PairOffer)
  /\ \A a \in Agents : WF_vars(PairGrant(a))
  /\ WF_vars(PairAnswer)
  /\ \A a \in Agents : WF_vars(PairStream(a))
  /\ \A a \in Agents : WF_vars(PairClose(a))

PairSpec == PairInit /\ [][PairNext]_vars /\ PairFairness

\* One page as its user can drive it: the Call button is enabled while the
\* status is ready or incoming and the input is not blank, the Hang Up button
\* while the status is calling or in-call.
CallButton(a) ==
  /\ isReady(ctl[a])
  /\ \E remoteId \in RemoteIdInputs, level \in Levels :
       Trim(remoteId) # <<>> /\ Dial(a, remoteId, level)

HangUpButton(a) ==
  /\ isCallActive(ctl[a])
  /\ EndCall(a)

UiNext ==
  \/ InitResume(Solo)
  \/ PeerOpen(Solo)
  \/ PeerDisconnected(Solo)
  \/ PeerError(Solo)
  \/ PeerCall(Solo)
  \/ CallButton(Solo)
  \/ TaskResume(Solo)
  \/ HangUpButton(Solo)
  \/ FrameTick(Solo)
  \/ \E h \in CallIds : CallAnswered(Solo, h)
  \/ \E h \in CallIds : CallStream(Solo, h)
  \/ \E h \in CallIds : CallClose(Solo, h)
  \/ \E h \in CallIds : CallError(Solo, h)
  \/ Shutdown(Solo)

UiSpec == Init /\ [][UiNext]_vars

\* ------------------------------------------------------------- claims
me == ctl[Solo]

IsBlank(text) == \A i \in 1..Len(text) : text[i] = " "
HasAnswerTask(c, h) ==
  \E i \in 1..Len(c.tasks) : c.tasks[i].kind = "answer" /\ c.tasks[i].call = h

\* d is c after placeCall has dialled remoteId with no call handle held.
DialledFresh(c, d, remoteId) ==
  /\ d.status = "calling"
  /\ d.statusMessage = MsgCalling(remoteId)
  /\ d.callRef # NoCall
  /\ c.calls[d.callRef].dir = "none"
  /\ d.calls[d.callRef].dir = "out"
  /\ d.calls[d.callRef].peer # <<>>
  /\ \A i \in 1..Len(d.calls[d.callRef].peer) : d.calls[d.callRef].peer[i] # " "

\* C1: a step in which placeCall originates a call while no call handle is
\* held ends with status calling, the new handle current, its handlers
\* registered and no event of it processed yet (the connection is still
\* pending); placeCall with a non-blank text, a Peer, no call handle held and
\* the microphone acquired (the stream already held, or getUserMedia granted
\* and an audio context at hand) is such a step, dialling the trimmed text;
\* and status turns in-call only in a step that is a "stream" event of a call
\* handle.
C1_CallingThenInCallByStream ==
  [][ /\ \A h \in CallIds :
           ( /\ me.calls[h].dir = "none"
             /\ me'.calls[h].dir = "out"
             /\ me.callRef = NoCall )
           => /\ me'.status = "calling"
              /\ me'.statusMessage[1] = "Calling"
              /\ me'.callRef = h
              /\ me'.calls[h].subscribed
              /\ me'.calls[h].phase = "pending"
      /\ \A remoteId \in RemoteIdInputs, level \in Levels :
           ( /\ ~IsBlank(remoteId) /\ me.peerRef /\ me.callRef = NoCall
             /\ me.localStreamRef # NoStream
             /\ HasFreeCall(me) /\ HasFreeFrame(me)
             /\ ctl' = [ctl EXCEPT ![Solo] = placeCall(me, remoteId, level)] )
           => DialledFresh(me, me', remoteId)
      /\ \A i \in 1..Len(me.tasks), level \in Levels :
           ( /\ me.tasks[i].kind = "place" /\ me.peerRef /\ me.callRef = NoCall
             /\ me.audioSupported \/ me.audioContextRef # NoContext
             /\ HasFreeCall(me) /\ HasFreeFrame(me)
             /\ ctl' = [ctl EXCEPT ![Solo] = taskResume(me, i, TRUE, level)] )
           => DialledFresh(me, me', me.tasks[i].remoteId)
      /\ (me.status # "in-call" /\ me'.status = "in-call")
           => \E h \in CallIds : CallStream(Solo, h) ]_vars

\* C1 witness: the only call ever created is an outbound one, it is current,
\* and a stream event has made the status in-call.
C1_Witness ==
  /\ me.status = "in-call"
  /\ me.callRef # NoCall
  /\ Created(me) = {me.callRef}
  /\ me.calls[me.callRef].dir = "out"

\* C2: in every reachable state, placeCall with an empty or white-space-only
\* text, or with no Peer held, sets status error, makes no getUserMedia
\* request, creates no call handle, and leaves the call handle, the local
\* stream, the sampling loop and the suspended invocations as they were.
C2_BlankOrNoPeerRejected ==
  \A remoteId \in RemoteIdInputs, level \in Levels :
    LET d == placeCall(me, remoteId, level)
    IN (IsBlank(remoteId) \/ ~me.peerRef) =>
         /\ d.status = "error"
         /\ d.statusMessage \in {MsgEnterPeer, MsgNotReady}
         /\ d.micRequests = me.micRequests
         /\ d.calls = me.calls
         /\ d.callRef = me.callRef
         /\ d.localStreamRef = me.localStreamRef
         /\ d.streams = me.streams
         /\ d.frames = me.frames
         /\ d.animationFrameRef = me.animationFrameRef
         /\ d.tasks = me.tasks

\* C2 witness: placeCall with a blank text has run during a call: its message
\* shows while the call handle, the stream and the loop are still held.
C2_Witness ==
  /\ me.statusMessage = MsgEnterPeer
  /\ me.callRef # NoCall
  /\ me.localStreamRef # NoStream
  /\ me.animationFrameRef # NoFrame

\* C4: at most one call handle that the page originated or answered has not
\* been closed by it, and a handle that was replaced by a new one has been
\* closed.
C4_AtMostOneUnclosedCall ==
  /\ Cardinality({h \in CallIds :
                    /\ me.calls[h].dir = "out" \/ me.calls[h].answered
                    /\ me.calls[h].closeCalls = 0}) <= 1
  /\ \A h \in CallIds :
       me.calls[h].superseded =>
         me.calls[h].closeCalls >= 1 /\ me.calls[h].phase = "closed"

\* C4 witness: a second call was started while the first was held.
C4_Witness ==
  \E h \in CallIds :
    me.calls[h].superseded /\ me.callRef # NoCall /\ me.callRef # h

\* C5 (as claimed): when a new call replaces the held one, no event of the
\* replaced handle touches the new session: the step leaves the status its
\* own (calling or incoming), the local stream held and live, and the
\* sampling loop running where there is an analyser to sample.
C5_ReplacedHandleIsSilent ==
  [][ \A old, new \in CallIds :
        (me.callRef = old /\ me'.callRef = new /\ old # new)
        => /\ me'.status \in {"calling", "incoming"}
           /\ me'.localStreamRef # NoStream
           /\ me'.audioSupported => me'.animationFrameRef # NoFrame ]_vars

\* C6 (as claimed): close is invoked exactly once on a handle that was
\* replaced by a new call.
C6_ReplacedHandleClosedOnce ==
  \A h \in CallIds : me.calls[h].superseded => me.calls[h].closeCalls = 1

C8_EndCallWithoutCallIsNoOp ==
  [][ (me.callRef = NoCall /\ EndCall(Solo))
      => /\ me'.status = me.status
         /\ me'.statusMessage = me.statusMessage
         /\ me'.callRef = me.callRef
         /\ me'.localStreamRef = me.localStreamRef
         /\ me'.micLevel = me.micLevel ]_vars

\* C9: the "call" event sets status incoming naming the caller and either
\* answers at once with the stream already held or requests the microphone;
\* a resumption in which ensureLocalStream throws (getUserMedia rejected, or
\* no AudioContext constructor) ends with the handle neither answered nor
\* registered and status error carrying the failure's message, one in which
\* it returns has answered and registered the handle; and an inbound handle
\* with no invocation pending for it is never answered later.
C9_AutoAnswerOrError ==
  [][ \A h \in CallIds :
        /\ (me.calls[h].dir = "none" /\ me'.calls[h].dir = "in")
           => \/ /\ HasAnswerTask(me', h)
                 /\ ~me'.calls[h].answered /\ ~me'.calls[h].subscribed
                 /\ me'.micRequests = me.micRequests + 1
                 /\ me'.status = "incoming"
                 /\ me'.statusMessage = MsgIncoming(me'.calls[h].peer)
              \/ /\ me.localStreamRef # NoStream
                 /\ me'.calls[h].answered /\ me'.calls[h].subscribed
                 /\ me'.callRef = h
                 /\ me.callRef = NoCall =>
                      /\ me'.status = "incoming"
                      /\ me'.statusMessage = MsgIncoming(me'.calls[h].peer)
        /\ \A i \in 1..Len(me.tasks), granted \in BOOLEAN, level \in Levels :
             LET c0 == [me EXCEPT !.tasks = RemoveAt(@, i)]
                 r == IF granted THEN GrantStream(c0, FreeStream(c0))
                                 ELSE DenyStream(c0)
             IN ( /\ me.tasks[i].kind = "answer" /\ me.tasks[i].call = h
                  /\ ctl' = [ctl EXCEPT ![Solo] = taskResume(me, i, granted, level)] )
                => IF r.ok
                   THEN /\ me'.calls[h].answered /\ me'.calls[h].subscribed
                        /\ me'.callRef = h
                   ELSE /\ ~me'.calls[h].answered /\ ~me'.calls[h].subscribed
                        /\ me'.callRef # h
                        /\ me'.status = "error"
                        /\ me'.statusMessage = r.err
        /\ (me.calls[h].dir = "in" /\ ~me.calls[h].answered /\ ~HasAnswerTask(me, h))
           => ~me'.calls[h].answered /\ ~me'.calls[h].subscribed ]_vars

\* C9 witness: the acquisition for an inbound call failed: the handle is
\* neither answered nor registered and the status is error.
C9_Witness ==
  \E h \in CallIds :
    /\ me.calls[h].dir = "in" /\ ~me.calls[h].answered /\ ~me.calls[h].subscribed
    /\ ~HasAnswerTask(me, h)
    /\ me.status = "error"
    /\ me.statusMessage \in {ErrMicDenied, ErrNoAudioContext}

\* C10 (as claimed): a resumption of placeCall in which ensureLocalStream
\* throws (getUserMedia rejected, or no AudioContext constructor) ends with
\* status error, no call handle created and no local stream held.
C10_FailedAcquisitionHoldsNothing ==
  [][ \A i \in 1..Len(me.tasks), granted \in BOOLEAN, level \in Levels :
        LET c0 == [me EXCEPT !.tasks = RemoveAt(@, i)]
            r == IF granted THEN GrantStream(c0, FreeStream(c0)) ELSE DenyStream(c0)
        IN ( /\ me.tasks[i].kind = "place"
             /\ me.localStreamRef = NoStream
             /\ ~r.ok
             /\ ctl' = [ctl EXCEPT ![Solo] = taskResume(me, i, granted, level)] )
           => /\ me'.status = "error"
              /\ me'.calls = me.calls
              /\ me'.localStreamRef = NoStream ]_vars

\* C3: in the two-page scenario A's status only moves initializing, ready,
\* incoming, in-call, ready and B's initializing, ready, calling, in-call,
\* ready (and round again); whenever B is dialling, both come to be in-call;
\* and whenever one end of a call is closed and the other still open, both
\* come to be ready with "Call ended." and no call handle.
StatusMoves(a) ==
  IF a = "A"
  THEN {<<"initializing", "ready">>, <<"ready", "incoming">>,
        <<"incoming", "in-call">>, <<"in-call", "ready">>}
  ELSE {<<"initializing", "ready">>, <<"ready", "calling">>,
        <<"calling", "in-call">>, <<"in-call", "ready">>}

Dialling == ctl["B"].tasks # <<>> \/ ctl["B"].status = "calling"
HungUp ==
  \E a \in Agents, k \in CallIds :
    ctl[a].calls[k].phase = "closed" /\ ctl[Other(a)].calls[k].phase = "open"
BothEnded ==
  \A a \in Agents :
    /\ ctl[a].status = "ready"
    /\ ctl[a].statusMessage = MsgCallEnded
    /\ ctl[a].callRef = NoCall

C3_TwoAgentScenario ==
  /\ [][ \A a \in Agents :
           ctl'[a].status # ctl[a].status
           => <<ctl[a].status, ctl'[a].status>> \in StatusMoves(a) ]_vars
  /\ Dialling ~> BothInCall
  /\ HungUp ~> BothEnded

\* C3 witness: the call was made and answered, one side hung up, and both
\* pages are ready with "Call ended." and no call handle.
C3_Witness ==
  /\ BothEnded
  /\ \E k \in CallIds :
       /\ ctl["B"].calls[k].dir = "out" /\ ctl["B"].calls[k].phase = "closed"
       /\ ctl["A"].calls[k].answered /\ ctl["A"].calls[k].phase = "closed"

\* C11: every "disconnected" event of the transport ends with status error
\* and the reconnecting message and with reconnect() invoked once more than
\* before; and a step in which the count of reconnect() invocations changes
\* is such an event, raising it by one.
C11_ReconnectOncePerDisconnect ==
  [][ /\ PeerDisconnected(Solo)
           => /\ me'.status = "error"
              /\ me'.statusMessage = MsgReconnecting
              /\ me'.peer.reconnects = me.peer.reconnects + 1
      /\ me'.peer.reconnects # me.peer.reconnects
           => /\ PeerDisconnected(Solo)
              /\ me'.peer.disconnects = me.peer.disconnects + 1
              /\ me'.peer.reconnects = me.peer.reconnects + 1 ]_vars

\* C11 witness: the transport has reported a disconnect while the page was
\* ready and reconnect() has been invoked for it.
C11_Witness ==
  /\ me.peer.disconnects >= 1
  /\ me.peer.reconnects = me.peer.disconnects
  /\ me.status = "error"
  /\ me.statusMessage = MsgReconnecting
  /\ me.callRef = NoCall

\* C12 (as claimed): whenever the mounted page shows status error, no call
\* handle is held and no local stream is held.
C12_ErrorDiscardsCallState ==
  (me.isMounted /\ me.status = "error")
  => me.callRef = NoCall /\ me.localStreamRef = NoStream

\* No asynchronous work of the page is suspended: the module load and every
\* getUserMedia request have settled and their continuations have run.
Quiescent(c) == c.initPc = "done" /\ c.tasks = <<>>

\* C13 (as claimed): once the cleanup has run and all suspended work has
\* resumed, the page holds no local stream, no pending frame, no call
\* handle, and no Peer that was not destroyed.
C13_ShutdownTearsDownAll ==
  (~me.isMounted /\ Quiescent(me))
  => /\ me.localStreamRef = NoStream
     /\ me.animationFrameRef = NoFrame /\ me.frames = {}
     /\ me.callRef = NoCall
     /\ ~me.peerRef
     /\ me.peer.exists => me.peer.destroyed

\* The microphone streams whose tracks have not been stopped
LiveStreams(c) == {s \in StreamIds : c.streams[s].state = "live"}

\* C14 (as claimed): on the mounted page at most one stream acquired from
\* the microphone has tracks that were not stopped, and placeCall or a
\* "call" event with a stream held makes no getUserMedia request.
C14_AtMostOneLiveStream ==
  /\ me.isMounted => Cardinality(LiveStreams(me)) <= 1
  /\ \A remoteId \in RemoteIdInputs, level \in Levels :
       (me.localStreamRef # NoStream /\ HasFreeCall(me) /\ HasFreeFrame(me))
       => placeCall(me, remoteId, level).micRequests = me.micRequests

\* C15: at most one scheduled frame callback is pending, and it is the one
\* animationFrameRef names; and in every reachable state observeMicLevel
\* with an analyser at hand leaves exactly one pending frame, the one it
\* has scheduled, whether or not a loop was running.
C15_OneSamplingLoop ==
  /\ Cardinality(me.frames) <= 1
  /\ me.frames = IF me.animationFrameRef = NoFrame THEN {}
                 ELSE {me.animationFrameRef}
  /\ \A level \in Levels :
       LET d == observeMicLevel(me, level)
       IN IF me.analyserRef = NoAnalyser THEN d = me
          ELSE /\ d.animationFrameRef # NoFrame
               /\ d.frames = {d.animationFrameRef}

\* C15 witness: an inbound call was answered with the stream of a pending
\* outbound call, so observeMicLevel ran while its loop was running; one
\* frame is pending.
C15_Witness ==
  \E old, new \in CallIds :
    /\ me.isMounted
    /\ me.calls[old].dir = "out" /\ me.calls[old].superseded
    /\ me.calls[old].closeCalls = 1
    /\ me.calls[new].dir = "in" /\ me.calls[new].answered
    /\ me.callRef = new
    /\ me.micRequests = 1
    /\ me.localStreamRef # NoStream
    /\ me.animationFrameRef # NoFrame
    /\ me.frames = {me.animationFrameRef}

\* d is c after the session on the call handle h has been ended: the handle
\* is closed and cleared, the stream c held is stopped and released, no
\* frame is pending, and the status is ready with "Call ended.".
SessionEnded(c, d, h) ==
  /\ d.callRef = NoCall
  /\ d.calls[h].phase = "closed"
  /\ d.localStreamRef = NoStream
  /\ c.localStreamRef # NoStream
       => d.streams[c.localStreamRef].state = "stopped"
  /\ d.animationFrameRef = NoFrame
  /\ d.frames = {}
  /\ d.micLevel = 0
  /\ d.status = "ready"
  /\ d.statusMessage = MsgCallEnded

\* C16: endCall with a call handle held, and a "close" event of the current
\* call handle, end the session: close() was invoked on the handle and the
\* ref cleared, the local stream stopped and released, the pending frame
\* cancelled, mic level 0, status ready with "Call ended.".
C16_EndCallOrCloseEndsSession ==
  [][ /\ (me.callRef # NoCall /\ EndCall(Solo))
           => /\ SessionEnded(me, me', me.callRef)
              /\ me'.calls[me.callRef].closeCalls >= 1
      /\ \A h \in CallIds :
           (me.callRef = h /\ CallClose(Solo, h))
           => SessionEnded(me, me', h) ]_vars

\* C16 witness: endCall has ended a call that was still ringing (never
\* open, so no close event ran): closed once, stream stopped, status ready.
C16_Witness ==
  \E h \in CallIds, s \in StreamIds :
    /\ me.isMounted
    /\ me.calls[h].dir = "out" /\ me.calls[h].phase = "closed"
    /\ me.calls[h].closeCalls = 1 /\ ~me.calls[h].superseded
    /\ Created(me) = {h}
    /\ me.streams[s].state = "stopped"
    /\ LiveStreams(me) = {}
    /\ me.callRef = NoCall /\ me.localStreamRef = NoStream
    /\ me.frames = {}
    /\ me.status = "ready" /\ me.statusMessage = MsgCallEnded

\* C17 (as claimed): an "error" event of the current call handle ends with
\* the call handle cleared, the local stream released, no frame pending,
\* and status error carrying the error's message.
C17_CallErrorEndsInError ==
  [][ \A h \in CallIds :
        (me.isMounted /\ me.callRef = h /\ CallError(Solo, h))
        => /\ me'.callRef = NoCall
           /\ me'.localStreamRef = NoStream
           /\ me'.animationFrameRef = NoFrame /\ me'.frames = {}
           /\ me'.status = "error"
           /\ me'.statusMessage = ErrCall ]_vars

\* C18: on the mounted page every "open" event that follows a disconnect
\* ends with status ready and the sharing message, whatever the status was
\* (error with the reconnecting message included), so the error status of a
\* disconnect does not outlive the re-established connection.
C18_OpenAfterDisconnectIsReady ==
  [][ (me.isMounted /\ me.peer.disconnects >= 1 /\ PeerOpen(Solo))
      => /\ me'.status = "ready"
         /\ me'.statusMessage = MsgShare
         /\ me'.localId = createAgentId(Solo)
         /\ me'.peer.reconnects = me.peer.reconnects ]_vars

\* C18 witness: the transport disconnected, reconnect() was invoked, the
\* transport is open again and the page is ready.
C18_Witness ==
  /\ me.isMounted
  /\ me.peer.disconnects >= 1
  /\ me.peer.reconnects >= 1
  /\ me.peer.open
  /\ me.status = "ready"
  /\ me.statusMessage = MsgShare

\* C19 (as claimed): whenever the mounted page holds a call handle, it holds
\* a local stream whose tracks have not been stopped.
C19_CallHeldMeansStreamLive ==
  (me.isMounted /\ me.callRef # NoCall)
  => /\ me.localStreamRef # NoStream
     /\ me.streams[me.localStreamRef].state = "live"

\* C20 (as claimed): whenever the mounted page shows status ready, no call
\* handle is held.
C20_ReadyMeansNoCall ==
  (me.isMounted /\ me.status = "ready") => me.callRef = NoCall

\* C21 (as claimed): whenever the mounted page holds a call handle, the Hang
\* Up button is enabled (the status is calling or in-call).
C21_CallHeldMeansHangUpEnabled ==
  (me.isMounted /\ me.callRef # NoCall) => isCallActive(me)

====
